---- MODULE Spec2Model ----
(***************************************************************************)
(* State-machine model of the two device integrations of                   *)
(* homebridge-switchbot: the ceiling light (src/src/device/ceilinglight.ts) *)
(* and the water detector (src/src/device/waterdetector.ts).               *)
(*                                                                         *)
(* One behaviour follows ONE accessory: Init chooses the device type, its   *)
(* configuration and the persisted context, and runs the constructor.      *)
(* An action is one run of a handler between two suspension points (an     *)
(* awaited network request, a timer): JavaScript runs such a stretch       *)
(* without interleaving, so it is atomic here.                             *)
(*                                                                         *)
(* JavaScript values are integers: numbers are themselves, true/false are  *)
(* 1/0, and undefined, NaN and a caught error object are the negative      *)
(* sentinels below.                                                        *)
(***************************************************************************)
EXTENDS Integers, Sequences, FiniteSets, TLC

Undefined == -1
NaN == -2
ErrorValue == -3
JsTrue == 1
JsFalse == 0

\* ---------------------------------------------------------------- bounds
MaxEvents == 2
MaxInFlight == 2
deviceMaxRetries == 2

\* ------------------------------------------------------- input domains
OnValues == {JsTrue, JsFalse}
BrightnessValues == {30, 60}
HueValues == {120}
SaturationValues == {100}
ColorTemperatureValues == {200}
StatusCodes == {100, 200, 190}
\* (HTTP status, envelope statusCode) of a response: exactly one of the two is 200,
\* the other is 100 or a code that is not accepted
StatusPairs == {st \in StatusCodes \X StatusCodes : (st[1] = 200) # (st[2] = 200)}

\* ------------------------------------------------------------ JS helpers
Truthy(v) == v \notin {JsFalse, Undefined, NaN}

\* a ?? b
Coalesce(a, b) == IF a = Undefined THEN b ELSE a

\* `${v}`
JsString(v) ==
  IF v = Undefined THEN "undefined"
  ELSE IF v = NaN THEN "NaN"
  ELSE IF v = ErrorValue THEN "[object Object]"
  ELSE ToString(v)

\* Math.round(num / den) for num >= 0, den > 0
RoundDiv(num, den) == (2 * num + den) \div (2 * den)

Max2(a, b) == IF a >= b THEN a ELSE b
Min2(a, b) == IF a <= b THEN a ELSE b

\* ------------------------------------------------------------- state
VARIABLES
  deviceType,                    \* "CeilingLight" or "WaterDetector"
  device,                        \* device configuration and platform credentials
  constructed,                   \* the constructor returned without throwing
  LightBulb,                     \* this.LightBulb
  Battery,                       \* this.Battery
  LeakSensor,                    \* this.LeakSensor
  context,                       \* accessory.context
  hap,                           \* values last given to Service.updateCharacteristic
  ceilingLightUpdateInProgress,
  WaterDetectorUpdateInProgress,
  debounceTimer,                 \* debounceTime: a signal waits for the window to close
  window,                        \* the setter calls that signalled in the open window
  skipWhilePassed,               \* the refresh interval's skipWhile has let a tick through
  verifyTimers,                  \* pending one-shot refreshes scheduled by pushChanges
  cycles,                        \* dispatch cycles, one record per subscriber call
  sent,                          \* commands POSTed to the device, in order
  refreshes,                     \* refreshStatus calls suspended at an await
  unhandledRejection,            \* a promise nobody awaits was rejected
  nEvents,                       \* setter calls and webhook events so far
  lastOp                         \* the handler that ran last, and how it ended

vars == <<deviceType, device, constructed, LightBulb, Battery, LeakSensor, context, hap,
          ceilingLightUpdateInProgress, WaterDetectorUpdateInProgress, debounceTimer,
          window, skipWhilePassed, verifyTimers, cycles, sent, refreshes, unhandledRejection,
          nEvents, lastOp>>

\* ------------------------------------------------ configuration
\* deviceBase sets this.BLE and this.OpenAPI from device.connectionType
BLE(cfg) == cfg.connectionType \in {"BLE", "BLE/OpenAPI"}
OpenAPI(cfg) == cfg.connectionType \in {"OpenAPI", "BLE/OpenAPI"}

Config(ct, cloud, token, offline, webhook, hide) ==
  [connectionType |-> ct, enableCloudService |-> cloud, token |-> token,
   offline |-> offline, webhook |-> webhook, hide_leak |-> hide]

LightConfigs ==
  { Config("OpenAPI", TRUE, TRUE, FALSE, TRUE, FALSE),
    Config("OpenAPI", FALSE, TRUE, FALSE, TRUE, FALSE),
    Config("BLE", TRUE, TRUE, TRUE, FALSE, FALSE),
    Config("OpenAPI", TRUE, FALSE, FALSE, FALSE, FALSE) }

DetectorConfigs ==
  { Config(ct, cloud, token, offline, TRUE, hide) :
      ct \in {"BLE", "OpenAPI", "BLE/OpenAPI"}, cloud \in BOOLEAN, token \in BOOLEAN,
      offline \in BOOLEAN, hide \in BOOLEAN }

\* ------------------------------------------------ persisted context
EmptyContext ==
  [LightBul |-> Undefined, On |-> Undefined, Hue |-> Undefined, Saturation |-> Undefined,
   Brightness |-> Undefined, ColorTemperature |-> Undefined, kelvin |-> Undefined,
   BatteryLevel |-> Undefined, StatusLowBattery |-> Undefined, LeakDetected |-> Undefined,
   StatusActive |-> Undefined]

LightContexts ==
  { EmptyContext,
    [EmptyContext EXCEPT !.LightBul = JsTrue],
    [EmptyContext EXCEPT !.LightBul = JsTrue, !.On = JsTrue, !.Hue = 120, !.Saturation = 100,
                         !.Brightness = 30, !.ColorTemperature = 200] }

DetectorContexts ==
  { EmptyContext,
    [EmptyContext EXCEPT !.BatteryLevel = 50, !.StatusLowBattery = 0, !.LeakDetected = 1] }

NoCharacteristics ==
  [On |-> Undefined, Hue |-> Undefined, Saturation |-> Undefined, Brightness |-> Undefined,
   ColorTemperature |-> Undefined, BatteryLevel |-> Undefined, StatusLowBattery |-> Undefined,
   LeakDetected |-> Undefined, StatusActive |-> Undefined]

NoLightBulb ==
  [On |-> Undefined, Hue |-> Undefined, Saturation |-> Undefined, Brightness |-> Undefined,
   ColorTemperature |-> Undefined]
NoBattery == [BatteryLevel |-> Undefined, StatusLowBattery |-> Undefined]
NoLeakSensor == [exists |-> FALSE, StatusActive |-> Undefined, LeakDetected |-> Undefined]

NoOp == [op |-> "constructor", result |-> ""]
Op(name, result) == [op |-> name, result |-> result]

\* ------------------------------------------------ shared handlers
\* the accessory object as a handler finds it: its caches, the persisted context and
\* the values the host holds
This ==
  [LightBulb |-> LightBulb, Battery |-> Battery, LeakSensor |-> LeakSensor,
   context |-> context, hap |-> hap]

\* a !== b
StrictNotEqual(a, b) == a # b \/ a = NaN

\* a variant of the status test that looks at the HTTP status code only
IsSuccessHttpOnly(statusCode, envelope) == statusCode = 200 \/ statusCode = 100

\* (statusCode === 200 || statusCode === 100) && (deviceStatus.statusCode === 200 || ... === 100)
IsSuccess(statusCode, envelope) ==
  (statusCode = 200 \/ statusCode = 100) /\ (envelope = 200 \/ envelope = 100)

\* a variant of updateHomeKitCharacteristics without the tests for undefined
ReportAll(target, source, fields) ==
  [k \in DOMAIN target |-> IF k \in fields THEN source[k] ELSE target[k]]

\* updateHomeKitCharacteristics: a field that is not undefined is stored in the
\* context and given to the host; an undefined one is only logged
Report(target, source, fields) ==
  [k \in DOMAIN target |->
     IF k \in fields /\ source[k] # Undefined THEN source[k] ELSE target[k]]

LightFields == {"On", "Brightness", "ColorTemperature", "Hue", "Saturation"}

DetectorValues(bat, leak, cfg) ==
  [BatteryLevel |-> bat.BatteryLevel, StatusLowBattery |-> bat.StatusLowBattery,
   LeakDetected |-> IF cfg.hide_leak THEN Undefined ELSE leak.LeakDetected]

DetectorFields == {"LeakDetected", "BatteryLevel", "StatusLowBattery"}

\* a variant of apiError that also overwrites the cached state with the error
apiErrorIntoCache(this, dt, cfg) ==
  [this EXCEPT
     !.hap = [k \in DOMAIN this.hap |-> ErrorValue],
     !.LightBulb = IF dt = "CeilingLight"
                   THEN [k \in DOMAIN this.LightBulb |-> ErrorValue] ELSE this.LightBulb,
     !.Battery = IF dt = "WaterDetector"
                 THEN [k \in DOMAIN this.Battery |-> ErrorValue] ELSE this.Battery]

\* apiError(e): the caught error is given to the host as each characteristic's value
apiError(this, dt, cfg) ==
  LET h == this.hap IN
  [this EXCEPT !.hap =
     IF dt = "CeilingLight"
     THEN [k \in DOMAIN h |-> IF k \in LightFields THEN ErrorValue ELSE h[k]]
     ELSE [k \in DOMAIN h |->
             IF k \in {"BatteryLevel", "StatusLowBattery"}
                \/ (k = "LeakDetected" /\ ~cfg.hide_leak)
             THEN ErrorValue ELSE h[k]]]

offlineOff(h, dt, cfg) ==
  IF dt = "CeilingLight"
  THEN (IF cfg.offline THEN [h EXCEPT !.On = JsFalse] ELSE h)
  ELSE (IF cfg.offline /\ ~cfg.hide_leak THEN [h EXCEPT !.LeakDetected = 0] ELSE h)

\* refreshStatus: which branch runs (the light's local-radio branch is commented out)
RefreshBranch(dt, cfg) ==
  IF ~cfg.enableCloudService /\ OpenAPI(cfg) THEN "cloudDisabled"
  ELSE IF dt = "WaterDetector" /\ BLE(cfg) THEN "BLE"
  ELSE IF OpenAPI(cfg) /\ cfg.token THEN "OpenAPI"
  ELSE "offline"

\* the suspended calls are kept in one order: which of two equal calls is which
\* makes no difference
Rank(r) == IF r.pc = "connectBLE" THEN 0 ELSE IF r.pc = "scan" THEN 1 ELSE 1 + r.attempt
Insert(rs, r) ==
  LET n == Cardinality({i \in 1..Len(rs) : Rank(rs[i]) <= Rank(r)}) IN
  SubSeq(rs, 1, n) \o <<r>> \o SubSeq(rs, n + 1, Len(rs))
Remove(rs, i) == SubSeq(rs, 1, i - 1) \o SubSeq(rs, i + 1, Len(rs))

\* refreshStatus up to its first await: the call it leaves suspended, if any
StartRefresh(rs, dt, cfg) ==
  LET b == RefreshBranch(dt, cfg) IN
  IF b = "BLE" THEN Insert(rs, [pc |-> "connectBLE", attempt |-> 0])
  ELSE IF b = "OpenAPI" THEN Insert(rs, [pc |-> "status", attempt |-> 1])
  ELSE rs

RefreshHap(h, dt, cfg) ==
  IF RefreshBranch(dt, cfg) = "offline" THEN offlineOff(h, dt, cfg) ELSE h

\* ------------------------------------------------ constructors
SeedLightBulb(ctx) ==
  [On |-> Coalesce(ctx.On, JsFalse), Hue |-> Coalesce(ctx.Hue, 0),
   Saturation |-> Coalesce(ctx.Saturation, 0), Brightness |-> Coalesce(ctx.Brightness, 0),
   ColorTemperature |-> Coalesce(ctx.ColorTemperature, 140)]

SeedBattery(ctx) ==
  [BatteryLevel |-> Coalesce(ctx.BatteryLevel, 100),
   StatusLowBattery |-> Coalesce(ctx.StatusLowBattery, 0)]

SeedLeakSensor(ctx, cfg) ==
  IF cfg.hide_leak THEN NoLeakSensor
  ELSE [exists |-> TRUE, StatusActive |-> Coalesce(ctx.StatusActive, JsFalse),
        LeakDetected |-> Coalesce(ctx.LeakDetected, 0)]

\* accessory.context.LightBul.bName throws when the context has no LightBul entry
LightConstructorThrows(ctx) == ctx.LightBul = Undefined

InitLight(cfg, p) ==
  LET ok == ~LightConstructorThrows(p)
      lb == IF ok THEN SeedLightBulb(p) ELSE NoLightBulb
  IN
  /\ constructed = ok
  /\ LightBulb = lb
  /\ Battery = NoBattery
  /\ LeakSensor = NoLeakSensor
  /\ context = IF ok THEN Report(p, lb, LightFields) ELSE p
  /\ hap = IF ok THEN Report(RefreshHap(NoCharacteristics, "CeilingLight", cfg), lb, LightFields)
           ELSE NoCharacteristics
  /\ refreshes = IF ok THEN StartRefresh(<<>>, "CeilingLight", cfg) ELSE <<>>

InitDetector(cfg, p) ==
  LET bat == SeedBattery(p)
      leak == SeedLeakSensor(p, cfg)
      h0 == IF cfg.hide_leak THEN NoCharacteristics
            ELSE [NoCharacteristics EXCEPT !.StatusActive = JsTrue]
  IN
  /\ constructed = TRUE
  /\ LightBulb = NoLightBulb
  /\ Battery = bat
  /\ LeakSensor = leak
  /\ context = Report(p, DetectorValues(bat, leak, cfg), DetectorFields)
  /\ hap = Report(RefreshHap(h0, "WaterDetector", cfg), DetectorValues(bat, leak, cfg),
                  DetectorFields)
  /\ refreshes = StartRefresh(<<>>, "WaterDetector", cfg)

Init ==
  /\ deviceType \in {"CeilingLight", "WaterDetector"}
  /\ device \in (IF deviceType = "CeilingLight" THEN LightConfigs ELSE DetectorConfigs)
  /\ \E p \in (IF deviceType = "CeilingLight" THEN LightContexts ELSE DetectorContexts) :
       IF deviceType = "CeilingLight" THEN InitLight(device, p) ELSE InitDetector(device, p)
  /\ ceilingLightUpdateInProgress = FALSE
  /\ WaterDetectorUpdateInProgress = FALSE
  /\ debounceTimer = FALSE
  /\ window = <<>>
  /\ skipWhilePassed = FALSE
  /\ verifyTimers = 0
  /\ cycles = <<>>
  /\ sent = <<>>
  /\ unhandledRejection = FALSE
  /\ nEvents = 0
  /\ lastOp = NoOp

\* ------------------------------------------------ ceiling light: setters
LightReady == deviceType = "CeilingLight" /\ constructed

fixedVars == <<deviceType, device, constructed, WaterDetectorUpdateInProgress>>
detectorVars == <<Battery, LeakSensor>>

\* doCeilingLightUpdate.next(): tap sets the flag, debounceTime restarts its timer
Signal(name, value) ==
  /\ ceilingLightUpdateInProgress' = TRUE
  /\ debounceTimer' = TRUE
  /\ window' = Append(window, [setter |-> name, value |-> value])

SetterCalled(name) ==
  /\ LightReady
  /\ nEvents < MaxEvents
  /\ nEvents' = nEvents + 1
  /\ lastOp' = Op(name, "set")
  /\ UNCHANGED <<fixedVars, detectorVars, skipWhilePassed, verifyTimers, cycles, sent,
                 refreshes, unhandledRejection>>

OnSet(value) ==
  /\ SetterCalled("OnSet")
  /\ LightBulb' = [LightBulb EXCEPT !.On = value]
  /\ Signal("OnSet", value)
  /\ UNCHANGED <<context, hap>>

BrightnessSet(value) ==
  /\ SetterCalled("BrightnessSet")
  /\ LightBulb' = [LightBulb EXCEPT !.Brightness = value]
  /\ Signal("BrightnessSet", value)
  /\ UNCHANGED <<context, hap>>

\* Math.min(Math.max(Math.round(1000000 / value / 100) * 100, 2000), 9000)
minKelvin == 2000
maxKelvin == 9000
SetterKelvin(value) ==
  Min2(Max2(RoundDiv(10000, value) * 100, minKelvin), maxKelvin)

\* m2hs (utils.ts): the hue and saturation of a colour temperature
HueSaturationOfMired == {<<30, 60>>}

\* a variant of the setter's test that never returns early
ColorTemperatureSetNeverReturns(value) == FALSE

\* if (!this.accessory.context.On || this.accessory.context.kelvin === kelvin) return
ColorTemperatureSetReturnsEarly(value) ==
  ~Truthy(context.On) \/ context.kelvin = SetterKelvin(value)

ColorTemperatureSet(value) ==
  /\ LightReady
  /\ nEvents < MaxEvents
  /\ nEvents' = nEvents + 1
  /\ UNCHANGED <<fixedVars, detectorVars, skipWhilePassed, verifyTimers, cycles, sent,
                 refreshes, unhandledRejection, context>>
  /\ IF ColorTemperatureSetReturnsEarly(value)
     THEN /\ lastOp' = Op("ColorTemperatureSet", "return")
          /\ UNCHANGED <<LightBulb, hap, ceilingLightUpdateInProgress, debounceTimer, window>>
     ELSE /\ lastOp' = Op("ColorTemperatureSet", "set")
          /\ \E hs \in HueSaturationOfMired :
               hap' = [hap EXCEPT !.Hue = hs[1], !.Saturation = hs[2]]
          /\ LightBulb' = [LightBulb EXCEPT !.ColorTemperature = value]
          /\ Signal("ColorTemperatureSet", value)

HueSet(value) ==
  /\ SetterCalled("HueSet")
  /\ hap' = [hap EXCEPT !.ColorTemperature = 140]
  /\ LightBulb' = [LightBulb EXCEPT !.Hue = value]
  /\ Signal("HueSet", value)
  /\ UNCHANGED context

SaturationSet(value) ==
  /\ SetterCalled("SaturationSet")
  /\ hap' = [hap EXCEPT !.ColorTemperature = 140]
  /\ LightBulb' = [LightBulb EXCEPT !.Saturation = value]
  /\ Signal("SaturationSet", value)
  /\ UNCHANGED context

\* ------------------------------------------------ ceiling light: dispatch
\* a variant of pushChanges without the test of enableCloudService
PushBranchIgnoringCloud(cfg) ==
  IF OpenAPI(cfg) /\ cfg.token THEN "OpenAPI" ELSE "offline"

\* pushChanges: which branch runs (the local-radio branch is commented out)
PushBranch(cfg) ==
  IF ~cfg.enableCloudService /\ OpenAPI(cfg) THEN "cloudDisabled"
  ELSE IF OpenAPI(cfg) /\ cfg.token THEN "OpenAPI"
  ELSE "offline"

\* a variant of the order of the steps that pushes the brightness first
StagesBrightnessFirst == <<"Bri", "HS", "CT", "On">>

Stages == <<"On", "HS", "CT", "Bri">>

\* hs2rgb (utils.ts)
hs2rgb(h, s) ==
  LET i == (h \div 60) % 6
      r == h % 60
      p == RoundDiv(255 * (100 - s), 100)
      q == RoundDiv(255 * (6000 - s * r), 6000)
      t == RoundDiv(255 * (6000 - s * (60 - r)), 6000)
  IN CASE i = 0 -> <<255, t, p>>
       [] i = 1 -> <<q, 255, p>>
       [] i = 2 -> <<p, 255, t>>
       [] i = 3 -> <<p, q, 255>>
       [] i = 4 -> <<t, p, 255>>
       [] OTHER -> <<255, p, q>>

\* Math.round(1000000 / Number(this.LightBulb.ColorTemperature))
PushKelvin(ct) == IF ct > 0 THEN RoundDiv(1000000, ct) ELSE NaN

\* the condition under which each step of openAPIpushChanges sends its command
OnDirty(lb, ctx) == StrictNotEqual(lb.On, ctx.On)
HueSaturationDirty(lb, ctx) ==
  StrictNotEqual(lb.Hue, ctx.Hue) \/ StrictNotEqual(lb.Saturation, ctx.Saturation)
ColorTemperatureDirty(lb, ctx) == StrictNotEqual(lb.ColorTemperature, ctx.ColorTemperature)
\* a variant of the brightness comparison that never finds the field clean
BrightnessAlwaysDirty(lb, ctx) == TRUE

BrightnessDirty(lb, ctx) == StrictNotEqual(lb.Brightness, ctx.Brightness)

\* a variant of the steps' conditions whose brightness step does not test LightBulb.On
SendsBrightnessWhenOff(stage, lb, ctx) ==
  CASE stage = "On" -> OnDirty(lb, ctx)
    [] stage = "HS" -> Truthy(lb.On) /\ HueSaturationDirty(lb, ctx)
    [] stage = "CT" -> Truthy(lb.On) /\ ColorTemperatureDirty(lb, ctx)
    [] OTHER -> BrightnessDirty(lb, ctx)

\* a variant of the steps' conditions without the test of LightBulb.On
SendsWhenOff(stage, lb, ctx) ==
  CASE stage = "On" -> OnDirty(lb, ctx)
    [] stage = "HS" -> HueSaturationDirty(lb, ctx)
    [] stage = "CT" -> ColorTemperatureDirty(lb, ctx)
    [] OTHER -> BrightnessDirty(lb, ctx)

Sends(stage, lb, ctx) ==
  CASE stage = "On" -> OnDirty(lb, ctx)
    [] stage = "HS" -> Truthy(lb.On) /\ HueSaturationDirty(lb, ctx)
    [] stage = "CT" -> Truthy(lb.On) /\ ColorTemperatureDirty(lb, ctx)
    [] OTHER -> Truthy(lb.On) /\ BrightnessDirty(lb, ctx)

\* the body POSTed by each step
Command(stage, lb) ==
  CASE stage = "On" ->
         [command |-> IF Truthy(lb.On) THEN "turnOn" ELSE "turnOff", parameter |-> "default"]
    [] stage = "HS" ->
         LET rgb == hs2rgb(lb.Hue, lb.Saturation) IN
         [command |-> "setColor",
          parameter |-> JsString(rgb[1]) \o ":" \o JsString(rgb[2]) \o ":" \o JsString(rgb[3])]
    [] stage = "CT" ->
         [command |-> "setColorTemperature",
          parameter |-> JsString(PushKelvin(lb.ColorTemperature))]
    [] OTHER ->
         [command |-> "setBrightness", parameter |-> JsString(lb.Brightness)]

\* the first step from step k on that sends a command; 5 when none does
NextStage(k, lb, ctx) ==
  LET S == {j \in k..4 : Sends(Stages[j], lb, ctx)} IN
  IF S = {} THEN 5 ELSE CHOOSE j \in S : \A i \in S : j <= i

\* a cycle keeps, while it runs, the step it is suspended in, the setter calls of its
\* window and the values of this.LightBulb when the window closed
Finished == [pc |-> "done", window |-> <<>>, atClose |-> NoLightBulb]

PutCycle(c, pc) ==
  IF pc = "done"
  THEN (IF c > Len(cycles) THEN Append(cycles, Finished) ELSE [cycles EXCEPT ![c] = Finished])
  ELSE IF c > Len(cycles)
       THEN Append(cycles, [pc |-> pc, window |-> window, atClose |-> LightBulb])
       ELSE [cycles EXCEPT ![c].pc = pc]

\* a variant of the subscriber that leaves the flag set at the end of a cycle
RunCycleKeepsFlag(c, k) ==
  LET j == IF PushBranch(device) = "OpenAPI" THEN NextStage(k, LightBulb, context) ELSE 5 IN
  IF j <= 4
  THEN /\ sent' = Append(sent, [cycle |-> c] @@ Command(Stages[j], LightBulb))
       /\ cycles' = PutCycle(c, Stages[j])
       /\ context' = IF Stages[j] = "CT"
                     THEN [context EXCEPT !.kelvin = PushKelvin(LightBulb.ColorTemperature)]
                     ELSE context
       /\ UNCHANGED <<verifyTimers, ceilingLightUpdateInProgress>>
  ELSE /\ cycles' = PutCycle(c, "done")
       /\ verifyTimers' = verifyTimers + 1
       /\ UNCHANGED <<sent, context, ceilingLightUpdateInProgress>>

\* cycle c runs on from step k until its next request, or to the end of pushChanges,
\* where the verification refresh is scheduled and the subscriber clears the flag
RunCycle(c, k) ==
  LET j == IF PushBranch(device) = "OpenAPI" THEN NextStage(k, LightBulb, context) ELSE 5 IN
  IF j <= 4
  THEN /\ sent' = Append(sent, [cycle |-> c] @@ Command(Stages[j], LightBulb))
       /\ cycles' = PutCycle(c, Stages[j])
       /\ context' = IF Stages[j] = "CT"
                     THEN [context EXCEPT !.kelvin = PushKelvin(LightBulb.ColorTemperature)]
                     ELSE context
       /\ UNCHANGED <<verifyTimers, ceilingLightUpdateInProgress>>
  ELSE /\ cycles' = PutCycle(c, "done")
       /\ verifyTimers' = verifyTimers + 1
       /\ ceilingLightUpdateInProgress' = FALSE
       /\ UNCHANGED <<sent, context>>

\* the debounce window closes: the subscriber calls pushChanges
DebounceFire ==
  /\ LightReady
  /\ debounceTimer
  /\ debounceTimer' = FALSE
  /\ window' = <<>>
  /\ RunCycle(Len(cycles) + 1, 1)
  /\ hap' = IF PushBranch(device) = "offline" THEN offlineOff(hap, deviceType, device) ELSE hap
  /\ lastOp' = Op("pushChanges", PushBranch(device))
  /\ UNCHANGED <<fixedVars, detectorVars, LightBulb, skipWhilePassed, refreshes,
                 unhandledRejection, nEvents>>

PushResult(threw, statusCode, envelope) ==
  IF threw THEN "throw" ELSE IF IsSuccess(statusCode, envelope) THEN "success" ELSE "status"

\* what the handling of a command's response does to the accessory: a thrown request is
\* caught by the step that sent it, a refused one is only logged by statusCode()
PushResponseHandled(this, result) ==
  IF result = "throw" THEN apiError(this, "CeilingLight", device) ELSE this

\* a variant of the response handling that repeats a command that was not accepted
PushResponseResend(c, threw, statusCode, envelope) ==
  /\ LightReady
  /\ c \in 1..Len(cycles)
  /\ cycles[c].pc # "done"
  /\ LET k == CHOOSE j \in 1..4 : Stages[j] = cycles[c].pc
         result == PushResult(threw, statusCode, envelope)
         this == PushResponseHandled(This, result)
     IN /\ hap' = this.hap
        /\ LightBulb' = this.LightBulb
        /\ RunCycle(c, IF result = "success" THEN k + 1 ELSE k)
        /\ lastOp' = Op("pushResponse", result)
  /\ UNCHANGED <<fixedVars, detectorVars, debounceTimer, window, skipWhilePassed,
                 refreshes, unhandledRejection, nEvents>>

\* the request of cycle c settles; the cycle goes on with the steps after it
PushResponse(c, threw, statusCode, envelope) ==
  /\ LightReady
  /\ c \in 1..Len(cycles)
  /\ cycles[c].pc # "done"
  /\ LET k == CHOOSE j \in 1..4 : Stages[j] = cycles[c].pc
         result == PushResult(threw, statusCode, envelope)
         this == PushResponseHandled(This, result)
     IN /\ hap' = this.hap
        /\ LightBulb' = this.LightBulb
        /\ RunCycle(c, k + 1)
        /\ lastOp' = Op("pushResponse", result)
  /\ UNCHANGED <<fixedVars, detectorVars, debounceTimer, window, skipWhilePassed,
                 refreshes, unhandledRejection, nEvents>>

\* ------------------------------------------------ refresh
InProgress ==
  IF deviceType = "CeilingLight" THEN ceilingLightUpdateInProgress
  ELSE WaterDetectorUpdateInProgress

cacheVars == <<LightBulb, Battery, LeakSensor, context>>

refreshFrame ==
  UNCHANGED <<fixedVars, ceilingLightUpdateInProgress, debounceTimer, window, cycles, sent,
              unhandledRejection>>

\* interval(deviceRefreshRate).pipe(skipWhile(in progress)): ticks are dropped until the
\* first one that finds the flag clear; from then on every tick calls refreshStatus
RefreshTick ==
  /\ constructed
  /\ skipWhilePassed \/ ~InProgress
  /\ Len(refreshes) < MaxInFlight
  /\ UNCHANGED nEvents
  /\ skipWhilePassed' = TRUE
  /\ refreshes' = StartRefresh(refreshes, deviceType, device)
  /\ hap' = RefreshHap(hap, deviceType, device)
  /\ lastOp' = Op("refreshStatus", RefreshBranch(deviceType, device))
  /\ UNCHANGED verifyTimers
  /\ UNCHANGED cacheVars
  /\ refreshFrame

\* a variant of the verification timer without take(1): it goes on firing
VerifyTickRepeats ==
  /\ LightReady
  /\ verifyTimers > 0
  /\ ~ceilingLightUpdateInProgress
  /\ Len(refreshes) < MaxInFlight
  /\ UNCHANGED nEvents
  /\ verifyTimers' = verifyTimers
  /\ refreshes' = StartRefresh(refreshes, deviceType, device)
  /\ hap' = RefreshHap(hap, deviceType, device)
  /\ lastOp' = Op("verifyRefresh", RefreshBranch(deviceType, device))
  /\ UNCHANGED skipWhilePassed
  /\ UNCHANGED cacheVars
  /\ refreshFrame

\* interval(15000).pipe(skipWhile(in progress)).pipe(take(1)), subscribed by pushChanges
VerifyTick ==
  /\ LightReady
  /\ verifyTimers > 0
  /\ ~ceilingLightUpdateInProgress
  /\ Len(refreshes) < MaxInFlight
  /\ UNCHANGED nEvents
  /\ verifyTimers' = verifyTimers - 1
  /\ refreshes' = StartRefresh(refreshes, deviceType, device)
  /\ hap' = RefreshHap(hap, deviceType, device)
  /\ lastOp' = Op("verifyRefresh", RefreshBranch(deviceType, device))
  /\ UNCHANGED skipWhilePassed
  /\ UNCHANGED cacheVars
  /\ refreshFrame

\* rgb2hs (utils.ts)
rgb2hs(r, g, b) ==
  LET max == Max2(r, Max2(g, b))
      min == Min2(r, Min2(g, b))
      delta == max - min
      sat == IF max = 0 THEN 0 ELSE RoundDiv(100 * delta, max)
      num == IF r = max THEN 60 * (g - b)
             ELSE IF g = max THEN 120 * delta + 60 * (b - r)
             ELSE 240 * delta + 60 * (r - g)
      pos == IF num < 0 THEN num + 360 * delta ELSE num
  IN IF delta = 0 THEN <<0, sat>> ELSE <<Min2(RoundDiv(pos, delta), 360), sat>>

\* Number(x) of a value of a JSON body
Number(x) == IF x = Undefined THEN NaN ELSE x

\* Math.max(Math.min(Math.round(1000000 / colorTemperature), 500), 140)
StatusMired(ct) ==
  IF ct = Undefined THEN NaN ELSE Max2(Min2(RoundDiv(1000000, ct), 500), 140)

\* a status body without the color entry
NoColor == <<>>

\* CeilingLight.openAPIparseStatus
LightParseStatus(lb, body) ==
  LET hs == IF body.color = NoColor THEN <<lb.Hue, lb.Saturation>>
            ELSE rgb2hs(body.color[1], body.color[2], body.color[3])
  IN [On |-> IF body.power = "on" THEN JsTrue ELSE JsFalse,
      Brightness |-> Number(body.brightness),
      Hue |-> hs[1],
      Saturation |-> hs[2],
      ColorTemperature |-> StatusMired(body.colorTemperature)]

LightBodies ==
  { [power |-> "on", brightness |-> 60, color |-> NoColor, colorTemperature |-> 4000],
    [power |-> "off", brightness |-> 30, color |-> <<255, 0, 0>>, colorTemperature |-> 2700] }

\* WaterDetector.openAPIparseStatus
\* a variant of the low-battery test that counts level 10 as low
LowBatteryUpToTen(level) == IF level # NaN /\ level <= 10 THEN 1 ELSE 0

LowBatteryOpenAPI(level) == IF level # NaN /\ level < 10 THEN 1 ELSE 0

DetectorParseBattery(body) ==
  LET level == Number(body.battery) IN
  [BatteryLevel |-> IF level = NaN THEN 100 ELSE level,
   StatusLowBattery |-> LowBatteryOpenAPI(level)]

DetectorParseLeak(leak, body, cfg) ==
  IF ~cfg.hide_leak THEN [leak EXCEPT !.LeakDetected = body.status] ELSE leak

DetectorBodies ==
  { [battery |-> 5, status |-> 1], [battery |-> 9, status |-> 0],
    [battery |-> 10, status |-> 0], [battery |-> Undefined, status |-> 0] }

\* the body of a response that is not parsed
NoBody == [error |-> TRUE]

Bodies == IF deviceType = "CeilingLight" THEN LightBodies ELSE DetectorBodies

\* a variant of retryRequest that makes one attempt more
RetryOnceMore(attempt) == attempt > deviceMaxRetries

\* retryRequest (platform.ts): one more attempt while fewer than deviceMaxRetries were made
RetryExhausted(attempt) == attempt >= deviceMaxRetries

\* an attempt of retryRequest fails; after the last one openAPIRefreshStatus catches
RefreshAttemptFails(i) ==
  /\ i \in 1..Len(refreshes)
  /\ refreshes[i].pc = "status"
  /\ IF RetryExhausted(refreshes[i].attempt)
     THEN LET this == apiError(This, deviceType, device) IN
          /\ refreshes' = Remove(refreshes, i)
          /\ hap' = this.hap
          /\ LightBulb' = this.LightBulb
          /\ Battery' = this.Battery
          /\ LeakSensor' = this.LeakSensor
          /\ context' = this.context
          /\ lastOp' = Op("openAPIRefreshStatus", "exhausted")
     ELSE /\ refreshes' = Insert(Remove(refreshes, i),
                                [refreshes[i] EXCEPT !.attempt = @ + 1])
          /\ UNCHANGED <<hap, cacheVars>>
          /\ lastOp' = Op("openAPIRefreshStatus", "retry")
  /\ UNCHANGED <<skipWhilePassed, verifyTimers, nEvents>>
  /\ refreshFrame

\* retryRequest returns a response: it is parsed into the cache and reported when both
\* status codes are accepted, and only logged otherwise
RefreshReply(i, statusCode, envelope, body) ==
  /\ i \in 1..Len(refreshes)
  /\ refreshes[i].pc = "status"
  /\ refreshes' = Remove(refreshes, i)
  /\ IF IsSuccess(statusCode, envelope)
     THEN /\ lastOp' = Op("openAPIRefreshStatus", "success")
          /\ IF deviceType = "CeilingLight"
             THEN LET lb == LightParseStatus(LightBulb, body) IN
                  /\ LightBulb' = lb
                  /\ context' = Report(context, lb, LightFields)
                  /\ hap' = Report(hap, lb, LightFields)
                  /\ UNCHANGED detectorVars
             ELSE LET bat == DetectorParseBattery(body)
                      leak == DetectorParseLeak(LeakSensor, body, device)
                      vals == DetectorValues(bat, leak, device)
                  IN /\ Battery' = bat
                     /\ LeakSensor' = leak
                     /\ context' = Report(context, vals, DetectorFields)
                     /\ hap' = Report(hap, vals, DetectorFields)
                     /\ UNCHANGED LightBulb
     ELSE /\ lastOp' = Op("openAPIRefreshStatus", "status")
          /\ UNCHANGED <<LightBulb, detectorVars, context, hap>>
  /\ UNCHANGED <<fixedVars, ceilingLightUpdateInProgress, debounceTimer, window, skipWhilePassed,
                 verifyTimers, cycles, sent, unhandledRejection, nEvents>>

\* ------------------------------------------------ water detector: local radio
\* switchbot.onadvertisement.serviceData: onadvertisement is the handler function
\* assigned in the scan, and a function has no serviceData property
AdvertisementServiceData == Undefined

LowBatteryBLE(level) == IF level # NaN /\ level < 15 THEN 1 ELSE 0

\* WaterDetector.BLEparseStatus: reading serviceData.battery of undefined throws, and so
\* does the write to this.LeakSensor (absent when hide_leak is set) behind its condition
BLEparseThrows(serviceData, cfg) == serviceData = Undefined \/ cfg.hide_leak

BLEparseBattery(serviceData) ==
  [BatteryLevel |-> Number(serviceData.battery),
   StatusLowBattery |-> LowBatteryBLE(Number(serviceData.battery))]

\* connectBLE settles: the scan is started without being awaited; without a scanner
\* the scan throws at once and BLERefreshConnection falls back to the remote API
ConnectBLEReturns(i, switchbotDefined) ==
  /\ deviceType = "WaterDetector"
  /\ i \in 1..Len(refreshes)
  /\ refreshes[i].pc = "connectBLE"
  /\ IF switchbotDefined
     THEN /\ refreshes' = Insert(Remove(refreshes, i), [pc |-> "scan", attempt |-> 0])
          /\ lastOp' = Op("BLERefreshStatus", "scanning")
          /\ UNCHANGED unhandledRejection
     ELSE /\ unhandledRejection' = TRUE
          /\ IF device.token /\ device.connectionType = "BLE/OpenAPI"
             THEN /\ refreshes' = Insert(Remove(refreshes, i),
                                        [pc |-> "status", attempt |-> 1])
                  /\ lastOp' = Op("BLERefreshStatus", "fallback")
             ELSE /\ refreshes' = Remove(refreshes, i)
                  /\ lastOp' = Op("BLERefreshStatus", "noConnection")
  /\ UNCHANGED <<fixedVars, LightBulb, detectorVars, context, hap,
                 ceilingLightUpdateInProgress, debounceTimer, window, skipWhilePassed, verifyTimers,
                 cycles, sent, nEvents>>

\* the scan window ends (with or without a matching advertisement, which the handler
\* only logs): stopScan, BLEparseStatus, updateHomeKitCharacteristics
ScanEnds(i, matched) ==
  /\ deviceType = "WaterDetector"
  /\ i \in 1..Len(refreshes)
  /\ refreshes[i].pc = "scan"
  /\ refreshes' = Remove(refreshes, i)
  /\ IF BLEparseThrows(AdvertisementServiceData, device)
     THEN /\ unhandledRejection' = TRUE
          /\ lastOp' = Op("scan", "throw")
          /\ UNCHANGED <<detectorVars, context, hap>>
     ELSE LET bat == BLEparseBattery(AdvertisementServiceData)
              vals == DetectorValues(bat, LeakSensor, device)
          IN /\ Battery' = bat
             /\ context' = Report(context, vals, DetectorFields)
             /\ hap' = Report(hap, vals, DetectorFields)
             /\ lastOp' = Op("scan", "parsed")
             /\ UNCHANGED <<LeakSensor, unhandledRejection>>
  /\ UNCHANGED <<fixedVars, LightBulb, ceilingLightUpdateInProgress, debounceTimer, window,
                 skipWhilePassed, verifyTimers, cycles, sent, nEvents>>

\* ------------------------------------------------ webhook
\* an event without an entry has undefined there; NoPayload is an event that is no object
NoPayload == [null |-> TRUE]

LightPayloads ==
  { [powerState |-> "ON", brightness |-> 60, colorTemperature |-> 3500],
    [powerState |-> "ON", brightness |-> Undefined, colorTemperature |-> Undefined],
    NoPayload }

DetectorPayloads ==
  { [detectionState |-> 1, battery |-> 42],
    [detectionState |-> Undefined, battery |-> 42],
    [detectionState |-> 1, battery |-> Undefined],
    NoPayload }

WebhookCalled ==
  /\ constructed
  /\ device.webhook
  /\ nEvents < MaxEvents
  /\ nEvents' = nEvents + 1
  /\ UNCHANGED <<fixedVars, ceilingLightUpdateInProgress, debounceTimer, window, skipWhilePassed,
                 verifyTimers, cycles, sent, refreshes, unhandledRejection>>

\* what the ceiling light's handler writes into this.LightBulb
LightWebhookValues(lb, payload) ==
  [lb EXCEPT !.On = IF payload.powerState = "ON" THEN JsTrue ELSE JsFalse,
             !.Brightness = payload.brightness,
             !.ColorTemperature = payload.colorTemperature]

\* the handler registered by CeilingLight.registerWebhook
LightWebhook(payload) ==
  /\ deviceType = "CeilingLight"
  /\ WebhookCalled
  /\ UNCHANGED detectorVars
  /\ IF payload = NoPayload
     THEN /\ lastOp' = Op("webhook", "throw")
          /\ UNCHANGED <<LightBulb, context, hap>>
     ELSE LET lb == LightWebhookValues(LightBulb, payload) IN
          /\ LightBulb' = lb
          /\ context' = Report(context, lb, LightFields)
          /\ hap' = Report(hap, lb, LightFields)
          /\ lastOp' = Op("webhook", "applied")

\* what the water detector's handler writes into this.Battery and this.LeakSensor
DetectorWebhookBattery(bat, payload) == [bat EXCEPT !.BatteryLevel = payload.battery]
DetectorWebhookLeak(leak, payload, cfg) ==
  IF ~cfg.hide_leak THEN [leak EXCEPT !.LeakDetected = payload.detectionState] ELSE leak

\* the handler registered by WaterDetector.registerWebhook
DetectorWebhook(payload) ==
  /\ deviceType = "WaterDetector"
  /\ WebhookCalled
  /\ UNCHANGED LightBulb
  /\ IF payload = NoPayload
     THEN /\ lastOp' = Op("webhook", "throw")
          /\ UNCHANGED <<detectorVars, context, hap>>
     ELSE LET bat == DetectorWebhookBattery(Battery, payload)
              leak == DetectorWebhookLeak(LeakSensor, payload, device)
              vals == DetectorValues(bat, leak, device)
          IN /\ Battery' = bat
             /\ LeakSensor' = leak
             /\ context' = Report(context, vals, DetectorFields)
             /\ hap' = Report(hap, vals, DetectorFields)
             /\ lastOp' = Op("webhook", "applied")

\* ------------------------------------------------ getters
\* the onGet handlers registered by the constructors: what the host reads
onGet(field) ==
  CASE field = "BatteryLevel" -> Battery.StatusLowBattery
    [] field = "StatusLowBattery" -> Battery.StatusLowBattery
    [] field = "LeakDetected" -> LeakSensor.LeakDetected
    [] OTHER -> LightBulb[field]

\* the characteristics that have an onGet handler
Getters ==
  IF deviceType = "CeilingLight"
  THEN (IF constructed THEN LightFields ELSE {})
  ELSE {"BatteryLevel", "StatusLowBattery"}
         \cup (IF LeakSensor.exists THEN {"LeakDetected"} ELSE {})

\* ------------------------------------------------ specification
\* one index for each different suspended call
Suspended == {i \in 1..Len(refreshes) : i = 1 \/ refreshes[i - 1] # refreshes[i]}

LightNext ==
  \/ \E v \in OnValues : OnSet(v)
  \/ \E v \in BrightnessValues : BrightnessSet(v)
  \/ \E v \in ColorTemperatureValues : ColorTemperatureSet(v)
  \/ \E v \in HueValues : HueSet(v)
  \/ \E v \in SaturationValues : SaturationSet(v)
  \/ DebounceFire
  \/ \E c \in 1..Len(cycles) :
       \/ PushResponse(c, TRUE, 0, 0)
       \/ \E st \in StatusPairs : PushResponse(c, FALSE, st[1], st[2])
  \/ VerifyTick
  \/ \E p \in LightPayloads : LightWebhook(p)

RefreshNext ==
  \/ RefreshTick
  \/ \E i \in Suspended : RefreshAttemptFails(i)
  \/ \E i \in Suspended, st \in StatusPairs :
       \E body \in (IF IsSuccess(st[1], st[2]) THEN Bodies ELSE {NoBody}) :
         RefreshReply(i, st[1], st[2], body)

DetectorNext ==
  \/ \E i \in Suspended, b \in BOOLEAN : ConnectBLEReturns(i, b)
  \/ \E i \in Suspended, b \in BOOLEAN : ScanEnds(i, b)
  \/ \E p \in DetectorPayloads : DetectorWebhook(p)

Next == LightNext \/ RefreshNext \/ DetectorNext

Spec == Init /\ [][Next]_vars

\* ------------------------------------------------ properties: webhook
\* a water-detector event that carries a battery level and no detectionState
BatteryOnlyPayload == [detectionState |-> Undefined, battery |-> 42]

\* C4, as the specification states it: a water-detector webhook event with only
\* battery = 42 sets the cached BatteryLevel to 42 and leaves LeakDetected and
\* StatusLowBattery as they were.  The handler assigns the absent detectionState
\* (undefined) to LeakSensor.LeakDetected, so this does not hold of the code.
C4_BatteryOnlyKeepsOtherFields ==
  [][DetectorWebhook(BatteryOnlyPayload) =>
       /\ Battery'.BatteryLevel = 42
       /\ Battery'.StatusLowBattery = Battery.StatusLowBattery
       /\ LeakSensor'.LeakDetected = LeakSensor.LeakDetected]_vars

MalformedLightPayloads ==
  {p \in LightPayloads :
     p = NoPayload \/ p.brightness = Undefined \/ p.colorTemperature = Undefined}

MalformedDetectorPayloads ==
  {p \in DetectorPayloads :
     p = NoPayload \/ p.detectionState = Undefined \/ p.battery = Undefined}

\* C5, as the specification states it: a webhook event whose payload is malformed
\* (not an object, or an expected entry missing) is discarded as a whole: no cached
\* field, no persisted field and no value held by the host changes.  Neither handler
\* validates the payload, so the entries that are present are applied and the absent
\* ones are written as undefined; this does not hold of the code.
C5_MalformedPayloadDiscarded ==
  [][((\E p \in MalformedLightPayloads : LightWebhook(p))
        \/ (\E p \in MalformedDetectorPayloads : DetectorWebhook(p)))
       => UNCHANGED <<LightBulb, Battery, LeakSensor, context, hap>>]_vars

\* ------------------------------------------------ properties: refresh
StatusCalls(rs) == Cardinality({j \in 1..Len(rs) : rs[j].pc = "status"})

\* C6, as the specification states it: with connection type BLE/OpenAPI and a token,
\* a scan that ends without a matching advertisement is followed, in the same refresh,
\* by the request to the remote API.  The code falls back only when connectBLE returns
\* no scanner; the end of the scan parses a value that was never assigned and throws,
\* so this does not hold of the code.
C6_ScanTimeoutFallsBack ==
  [][(/\ device.connectionType = "BLE/OpenAPI"
      /\ device.token
      /\ \E i \in Suspended : ScanEnds(i, FALSE))
       => StatusCalls(refreshes') = StatusCalls(refreshes) + 1]_vars

\* C7: when every attempt of a remote refresh has failed, the cached fields
\* (LightBulb, Battery, LeakSensor) and the persisted context are exactly what they
\* were before the refresh gave up; only the values held by the host change.
C7_ExhaustedRefreshKeepsCache ==
  [][(\E i \in Suspended :
        refreshes[i].pc = "status" /\ refreshes[i].attempt >= deviceMaxRetries
        /\ RefreshAttemptFails(i))
       => UNCHANGED <<LightBulb, Battery, LeakSensor, context>>]_vars

\* a refresh has given up in a state whose cache holds values and whose host has
\* been given the error
C7_Witness ==
  /\ lastOp = Op("openAPIRefreshStatus", "exhausted")
  /\ \E k \in DOMAIN hap : hap[k] = ErrorValue
  /\ \/ deviceType = "CeilingLight" /\ LightBulb.Brightness \in BrightnessValues
     \/ deviceType = "WaterDetector" /\ Battery.BatteryLevel = 42

\* ------------------------------------------------ properties: push
\* the step of openAPIpushChanges that sends a command
StageOf(command) ==
  CASE command \in {"turnOn", "turnOff"} -> "On"
    [] command = "setColor" -> "HS"
    [] command = "setColorTemperature" -> "CT"
    [] OTHER -> "Bri"

\* the field of a step differs between LightBulb (desired) and the context (observed)
Differs(stage, lb, ctx) ==
  CASE stage = "On" -> lb.On # ctx.On
    [] stage = "HS" -> lb.Hue # ctx.Hue \/ lb.Saturation # ctx.Saturation
    [] stage = "CT" -> lb.ColorTemperature # ctx.ColorTemperature
    [] OTHER -> lb.Brightness # ctx.Brightness

\* the commands cycle c has sent for a step
SentBy(c, stage, log) ==
  {i \in 1..Len(log) : log[i].cycle = c /\ StageOf(log[i].command) = stage}

RemoteUsable == device.connectionType = "OpenAPI" /\ device.enableCloudService /\ device.token

\* C1, as the specification states it: the cycle that runs when a debounce window
\* closes sends, for each field, at most one command, and that command carries the
\* value the field had when the window closed.  Each step reads LightBulb when it
\* runs, after the responses of the steps before it, so a value set after the window
\* closed is sent by the running cycle; this does not hold of the code.
C1_CommandsCarryWindowValues ==
  [][sent' # sent =>
       LET e == sent'[Len(sent')]
           atClose == cycles'[e.cycle].atClose
           expected == Command(StageOf(e.command), atClose)
       IN /\ e.command = expected.command
          /\ e.parameter = expected.parameter
          /\ Cardinality(SentBy(e.cycle, StageOf(e.command), sent')) = 1]_vars

BrightnessCalls(w) == SelectSeq(w, LAMBDA x : x.setter = "BrightnessSet")
ThirtyThenSixty(w) ==
  LET b == BrightnessCalls(w) IN
  Len(b) >= 2 /\ b[Len(b) - 1].value = 30 /\ b[Len(b)].value = 60

\* the window of cycle c, in a step that starts c or lets it go on
WindowOf(c) == IF c > Len(cycles) THEN window ELSE cycles[c].window

\* in this step cycle c reaches its brightness step, or ends before it
ReachesBrightness(c) ==
  /\ c \in 1..Len(cycles')
  /\ cycles'[c].pc \in {"Bri", "done"}
  /\ c > Len(cycles) \/ cycles[c].pc \in {"On", "HS", "CT"}

\* in this step cycle c ends
Ends(c) ==
  /\ c \in 1..Len(cycles')
  /\ cycles'[c].pc = "done"
  /\ c > Len(cycles) \/ cycles[c].pc # "done"

C8_RefusedCommandStaysDirty ==
  [][\A c \in 1..Len(cycles), st \in StatusPairs :
       (~((st[1] \in {100, 200}) /\ (st[2] \in {100, 200}))
        /\ PushResponse(c, FALSE, st[1], st[2]))
         => /\ LightBulb' = LightBulb
            /\ \A stage \in {"On", "HS", "CT", "Bri"} :
                 /\ Differs(stage, LightBulb, context) => Differs(stage, LightBulb', context')
                 /\ Cardinality(SentBy(c, stage, sent')) <= 1]_vars

\* a setBrightness was refused and the brightness still differs
C8_Witness ==
  /\ lastOp = Op("pushResponse", "status")
  /\ \E c \in 1..Len(cycles) : cycles[c].pc = "done" /\ SentBy(c, "Bri", sent) # {}
  /\ LightBulb.Brightness # context.Brightness

\* ------------------------------------------------ properties: setters
\* a setter call emits one signal: the flag is set, the debounce timer runs, and the
\* open window holds one call more
OneSignal ==
  /\ ceilingLightUpdateInProgress'
  /\ debounceTimer'
  /\ Len(window') = Len(window) + 1

\* no request is issued or waited for
NoRequest == UNCHANGED <<sent, cycles, refreshes>>

Records(field, value) == LightBulb' = [LightBulb EXCEPT ![field] = value]

OtherSettersRecordAndSignal ==
  /\ \A v \in OnValues : OnSet(v) => Records("On", v) /\ OneSignal /\ NoRequest
  /\ \A v \in BrightnessValues :
       BrightnessSet(v) => Records("Brightness", v) /\ OneSignal /\ NoRequest
  /\ \A v \in HueValues : HueSet(v) => Records("Hue", v) /\ OneSignal /\ NoRequest
  /\ \A v \in SaturationValues :
       SaturationSet(v) => Records("Saturation", v) /\ OneSignal /\ NoRequest

\* C10, as the specification states it: every setter, in any state, records the given
\* value in LightBulb, emits one dispatch signal and issues no request.
\* ColorTemperatureSet returns before doing either when the light is off or the
\* requested temperature is the one last pushed.
C10_EverySetterRecords ==
  [][/\ OtherSettersRecordAndSignal
     /\ \A v \in ColorTemperatureValues :
          ColorTemperatureSet(v) => Records("ColorTemperature", v) /\ OneSignal /\ NoRequest]_vars

\* the requested mired value in kelvin, rounded to the nearest 100, within 2000..9000
RequestedKelvin(v) ==
  LET k == ((20000 + v) \div (2 * v)) * 100 IN
  IF k < 2000 THEN 2000 ELSE IF k > 9000 THEN 9000 ELSE k

\* C10, amended: OnSet, BrightnessSet, HueSet and SaturationSet always record the
\* value, emit one signal and issue no request; ColorTemperatureSet does so unless
\* context.On is falsy or context.kelvin equals the requested temperature in kelvin,
\* and then it changes nothing in LightBulb, emits no signal and issues no request.
C10_SettersRecordUnlessEarlyReturn ==
  [][/\ OtherSettersRecordAndSignal
     /\ \A v \in ColorTemperatureValues :
          ColorTemperatureSet(v) =>
            /\ NoRequest
            /\ IF context.On \in {JsFalse, Undefined, NaN}
                  \/ context.kelvin = RequestedKelvin(v)
               THEN UNCHANGED <<LightBulb, window, debounceTimer, ceilingLightUpdateInProgress>>
               ELSE Records("ColorTemperature", v) /\ OneSignal]_vars

\* ColorTemperatureSet has returned early for a light that is on, because the
\* requested temperature is the one last pushed
C10_Witness ==
  /\ lastOp = Op("ColorTemperatureSet", "return")
  /\ Truthy(context.On)
  /\ context.kelvin # Undefined
  /\ window = <<>>

\* C9, as the specification states it: whenever a command of the light fails, by a
\* thrown request or by a response whose status codes are not both 100 or 200, the
\* host's characteristics are set to the error value and LightBulb is unchanged.  A
\* refused response is only logged, so this does not hold of the code.
C9_PushFailureReported ==
  [][(\E c \in 1..Len(cycles) :
        \/ PushResponse(c, TRUE, 0, 0)
        \/ \E st \in StatusPairs :
             ~((st[1] \in {100, 200}) /\ (st[2] \in {100, 200}))
             /\ PushResponse(c, FALSE, st[1], st[2]))
       => /\ \A k \in {"On", "Hue", "Saturation", "Brightness", "ColorTemperature"} :
               hap'[k] = ErrorValue
          /\ LightBulb' = LightBulb]_vars

\* ------------------------------------------------ properties: getters
\* the cached value of a field the host can read
Cached(field) ==
  CASE field = "BatteryLevel" -> Battery.BatteryLevel
    [] field = "StatusLowBattery" -> Battery.StatusLowBattery
    [] field = "LeakDetected" -> LeakSensor.LeakDetected
    [] OTHER -> LightBulb[field]

\* C11, as the specification states it: in every reachable state the getter of every
\* exposed field returns the cached value of that same field.  The getter registered
\* for BatteryLevel returns Battery.StatusLowBattery, so this does not hold of the code.
C11_GetterReturnsItsField == \A f \in Getters : onGet(f) = Cached(f)

\* the refresh finds no usable transport: neither branch of refreshStatus issues a read
NoUsableTransport ==
  /\ ~(~device.enableCloudService /\ device.connectionType \in {"OpenAPI", "BLE/OpenAPI"})
  /\ ~(deviceType = "WaterDetector" /\ device.connectionType \in {"BLE", "BLE/OpenAPI"})
  /\ ~(device.connectionType \in {"OpenAPI", "BLE/OpenAPI"} /\ device.token)

\* C12, as the specification states it: a refresh that finds no usable transport ends
\* with the observed state at the safe value, so that a getter called afterwards
\* returns On = false (light) or LeakDetected = not detected (detector).  offlineOff
\* writes the safe value to the host only, and only when device.offline is set; the
\* cache the getters read is untouched, so this does not hold of the code.
C12_OfflineRefreshLeavesSafeValue ==
  [][(NoUsableTransport /\ (RefreshTick \/ VerifyTick))
       => \A f \in Getters' :
            /\ f = "On" => onGet(f)' = JsFalse
            /\ f = "LeakDetected" => onGet(f)' = 0]_vars

\* ------------------------------------------------ properties: cloud access disabled
CloudDisabled ==
  ~device.enableCloudService /\ device.connectionType \in {"OpenAPI", "BLE/OpenAPI"}

\* C13: with enableCloudService false on a device whose connection type includes the
\* remote API, no command is ever sent and no read (remote or local-radio) is ever
\* started, and a refresh tick, a verification refresh and a dispatch cycle leave
\* LightBulb, Battery, LeakSensor and the context unchanged.
C13_CloudDisabledIssuesNothing ==
  /\ [](CloudDisabled => sent = <<>> /\ refreshes = <<>>)
  /\ [][(CloudDisabled /\ (RefreshTick \/ VerifyTick \/ DebounceFire))
          => UNCHANGED <<LightBulb, Battery, LeakSensor, context>>]_vars

\* a dispatch cycle has run with cloud access disabled and a field that differs
C13_Witness ==
  /\ CloudDisabled
  /\ lastOp = Op("pushChanges", "cloudDisabled")
  /\ LightBulb.On # context.On
  /\ sent = <<>>

\* ------------------------------------------------ properties: errors
\* C14, as the specification states it: whatever fails inside a refresh or dispatch
\* cycle, the error does not leave the cycle.  The scan of BLERefreshStatus runs in an
\* async block that is neither awaited nor caught: a missing scanner and the end of
\* every scan throw there, so this does not hold of the code.
C14_NoErrorLeavesTheCycle == unhandledRejection = FALSE

\* C15, as the specification states it: every value given to the host with
\* updateCharacteristic was confirmed by a read or a webhook event.  Stated for the
\* three cases the claim names: after construction alone the host has been given
\* nothing, HueSet and SaturationSet give the host nothing, and the host never holds
\* the caught error.  The constructor reports the seeds, HueSet and SaturationSet
\* report ColorTemperature 140, and apiError reports the error; this does not hold.
C15_OnlyConfirmedValuesReported ==
  /\ [](lastOp = NoOp => \A k \in LightFields \cup DetectorFields : hap[k] = Undefined)
  /\ [](\A k \in DOMAIN hap : hap[k] # ErrorValue)
  /\ [][((\E v \in HueValues : HueSet(v)) \/ (\E v \in SaturationValues : SaturationSet(v)))
          => hap' = hap]_vars

\* ------------------------------------------------ properties: reporting
\* both status codes of a response are 100 or 200
Accepted(st) == st[1] \in {100, 200} /\ st[2] \in {100, 200}

\* a step in which updateHomeKitCharacteristics runs
UpdateRuns ==
  \/ \E p \in LightPayloads \ {NoPayload} : LightWebhook(p)
  \/ \E p \in DetectorPayloads \ {NoPayload} : DetectorWebhook(p)
  \/ \E i \in Suspended, st \in StatusPairs, body \in Bodies :
       Accepted(st) /\ RefreshReply(i, st[1], st[2], body)

ReportedFields == IF deviceType = "CeilingLight" THEN LightFields ELSE DetectorFields

\* C16: when updateHomeKitCharacteristics runs, a field whose cached value is
\* undefined changes neither the host's value nor the context entry, and every other
\* field is both stored in the context and given to the host.
C16_UndefinedIsNotReported ==
  [][UpdateRuns =>
       \A f \in ReportedFields :
         IF Cached(f)' = Undefined
         THEN hap'[f] = hap[f] /\ context'[f] = context[f]
         ELSE hap'[f] = Cached(f)' /\ context'[f] = Cached(f)']_vars

\* a webhook event without brightness has been applied: the cached Brightness is
\* undefined, the context and the host keep the earlier value
C16_Witness ==
  /\ lastOp = Op("webhook", "applied")
  /\ deviceType = "CeilingLight"
  /\ LightBulb.Brightness = Undefined
  /\ context.Brightness # Undefined
  /\ hap.Brightness = context.Brightness
  /\ hap.On = JsTrue

\* C17: a response to a refresh is parsed into the cache exactly when both status
\* codes are 100 or 200, and a response to a command is reported as sent exactly
\* then; with any other pair of codes the cache and the context are unchanged.
\* (The tests before each quantifier are conjuncts of the action that follows, which
\* removes the call it answers and records a PushResponse step in lastOp.)
C17_SuccessIffBothCodesAccepted ==
  [][/\ \A i \in Suspended :
          (refreshes[i].pc = "status" /\ refreshes' = Remove(refreshes, i)) =>
            \A st \in StatusPairs, body \in Bodies :
              RefreshReply(i, st[1], st[2], body) =>
                IF Accepted(st)
                THEN /\ lastOp'.result = "success"
                     /\ deviceType = "CeilingLight" => LightBulb'.Brightness = body.brightness
                     /\ deviceType = "WaterDetector" =>
                          Battery'.BatteryLevel
                            = (IF body.battery = Undefined THEN 100 ELSE body.battery)
                ELSE /\ lastOp'.result = "status"
                     /\ UNCHANGED <<LightBulb, Battery, LeakSensor, context, hap>>
     /\ lastOp'.op = "pushResponse" =>
          \A c \in 1..Len(cycles), st \in StatusPairs :
            PushResponse(c, FALSE, st[1], st[2]) =>
              /\ (lastOp'.result = "success") = Accepted(st)
              /\ ~Accepted(st) => LightBulb' = LightBulb /\ hap' = hap]_vars

\* a refresh response with HTTP 200 and envelope 190 has been received and ignored
C17_Witness ==
  /\ lastOp = Op("openAPIRefreshStatus", "status")
  /\ refreshes = <<>>
  /\ deviceType = "WaterDetector"
  /\ Battery.BatteryLevel = 100
  /\ \A k \in DOMAIN hap : hap[k] # ErrorValue

\* C18: after a remote refresh whose accepted response reports battery level b, the
\* cached BatteryLevel is b and StatusLowBattery is BATTERY_LEVEL_LOW (1) exactly
\* when b is below 10; with b = 5 the level is 5 and the indicator is low.
C18_LowBatteryBelowTen ==
  [][\A i \in Suspended, st \in StatusPairs, body \in DetectorBodies :
       (/\ deviceType = "WaterDetector"
        /\ Accepted(st)
        /\ body.battery # Undefined
        /\ RefreshReply(i, st[1], st[2], body))
         => /\ Battery'.BatteryLevel = body.battery
            /\ Battery'.StatusLowBattery = (IF body.battery < 10 THEN 1 ELSE 0)]_vars

\* the status with battery 5 has been parsed
C18_Witness ==
  /\ lastOp = Op("openAPIRefreshStatus", "success")
  /\ Battery.BatteryLevel = 5
  /\ Battery.StatusLowBattery = 1
  /\ context.BatteryLevel = 5

\* ------------------------------------------------ properties: construction
LightDefaults == [On |-> JsFalse, Hue |-> 0, Saturation |-> 0, Brightness |-> 0,
                  ColorTemperature |-> 140]
DetectorDefaults == [BatteryLevel |-> 100, StatusLowBattery |-> 0, LeakDetected |-> 0]

\* the cache holds, for each field, the persisted value p[f] or else the default
SeededFrom(p, defaults) ==
  \A f \in DOMAIN defaults :
    (f \in Getters \/ deviceType = "CeilingLight")
      => Cached(f) = (IF p[f] # Undefined THEN p[f] ELSE defaults[f])

\* C19, as the specification states it: construction completes without error and
\* seeds every cached field from the persisted context or else from its default, for
\* an empty and for a populated context.  The light's constructor reads
\* accessory.context.LightBul.bName and throws on a context without a LightBul entry,
\* such as the empty one; this does not hold of the code.
C19_ConstructionSeedsCache ==
  lastOp = NoOp =>
    /\ constructed
    /\ IF deviceType = "CeilingLight"
       THEN \E p \in LightContexts : SeededFrom(p, LightDefaults)
       ELSE \E p \in DetectorContexts : SeededFrom(p, DetectorDefaults)

\* ------------------------------------------------ properties: brightness
\* the Brightness characteristic admits minValue 0: a light that is on and reachable
\* over the remote API, whose owner may also dim it to that value
DimmedValue == 0

InitDimming ==
  /\ Init
  /\ deviceType = "CeilingLight"
  /\ RemoteUsable
  /\ context.On = JsTrue

NextDimming == BrightnessSet(DimmedValue) \/ LightNext \/ RefreshNext

SpecDimming == InitDimming /\ [][NextDimming]_vars

BrightnessParameters == {ToString(n) : n \in 1..100}

\* C20, as the specification states it: every setBrightness command carries a
\* parameter in 1..100.  pushBrightnessChanges sends the cached Brightness as it is,
\* and the characteristic admits 0; this does not hold of the code.
C20_BrightnessParameterInRange ==
  \A i \in 1..Len(sent) :
    sent[i].command = "setBrightness" => sent[i].parameter \in BrightnessParameters

\* ------------------------------------------------ properties: colour temperature
\* the ColorTemperature characteristic admits minValue 140 (mired): the same light,
\* whose owner may also set the coolest white
CoolestMired == 140

NextCoolest == ColorTemperatureSet(CoolestMired) \/ LightNext \/ RefreshNext

SpecCoolest == InitDimming /\ [][NextCoolest]_vars

KelvinParameters == {ToString(n) : n \in 2700..6500}

\* C21, as the specification states it: every setColorTemperature command carries a
\* parameter in 2700..6500.  pushColorTemperatureChanges sends
\* Math.round(1000000 / ColorTemperature) as it is, and the characteristic admits
\* 140..500 mired, that is 7143..2000 K; this does not hold of the code.
C21_KelvinParameterInRange ==
  \A i \in 1..Len(sent) :
    sent[i].command = "setColorTemperature" => sent[i].parameter \in KelvinParameters

\* ------------------------------------------------ properties: concurrency
\* C22, as the specification states it: at most one refreshStatus call of a device is
\* suspended (in its scan or in its request) at any time.  The interval's skipWhile
\* tests the flag of the dispatch pipeline, which no refresh sets, and nothing else
\* keeps a tick, a verification refresh or the constructor's refresh from starting
\* while another call is suspended; this does not hold of the code.
C22_AtMostOneRefreshInFlight == Len(refreshes) <= 1

\* the cycles that have not reached the end of pushChanges
Running == {c \in 1..Len(cycles) : cycles[c].pc # "done"}

\* C23, as the specification states it: at most one dispatch cycle runs at a time, and
\* no debounce window is open while a cycle runs.  The subscriber is an async function
\* the pipeline does not wait for, and the tap only sets the flag; this does not hold
\* of the code.
C23_AtMostOneCycleRunning ==
  /\ Cardinality(Running) <= 1
  /\ debounceTimer => Running = {}

\* the field of this.LightBulb a setter writes
FieldOf(setter) ==
  CASE setter = "OnSet" -> "On"
    [] setter = "BrightnessSet" -> "Brightness"
    [] setter = "ColorTemperatureSet" -> "ColorTemperature"
    [] setter = "HueSet" -> "Hue"
    [] OTHER -> "Saturation"

\* the calls of the open window that no later call of the same setter replaced
LastCalls(w) == {i \in 1..Len(w) : \A j \in (i + 1)..Len(w) : w[j].setter # w[i].setter}

\* C24, as the specification states it: while a debounce window is open, the value a
\* setter recorded is still the value of its field, whatever refresh response or
\* webhook event arrived since, unless a later call of that setter replaced it.  The
\* setter, openAPIparseStatus and the webhook handler write the same this.LightBulb
\* field, so a response that arrives inside the window overwrites the pending value
\* and the cycle compares and sends the device's value; this does not hold of the code.
C24_PendingWriteSurvivesRefresh ==
  \A i \in LastCalls(window) : LightBulb[FieldOf(window[i].setter)] = window[i].value

\* ------------------------------------------------ properties: dispatch cycle
\* C25, as the specification states it: when the response to a command reports
\* success, the command's field is no longer dirty: it is equal in LightBulb and in
\* the context.  The steps of openAPIpushChanges only log a success; the context is
\* written by updateHomeKitCharacteristics alone, after a refresh or a webhook event,
\* so the field stays dirty and the next cycle sends it again; this does not hold of
\* the code.
C25_AcknowledgedFieldIsClean ==
  [][lastOp'.op = "pushResponse" =>
       \A c \in 1..Len(cycles), st \in StatusPairs :
         (Accepted(st) /\ PushResponse(c, FALSE, st[1], st[2]))
           => ~Differs(cycles[c].pc, LightBulb', context')]_vars

\* power, color, color temperature, brightness
Priority(stage) ==
  CASE stage = "On" -> 1
    [] stage = "HS" -> 2
    [] stage = "CT" -> 3
    [] OTHER -> 4

\* C26: a cycle sends its commands in the order power, color, color temperature,
\* brightness, and one at a time: its first command in the step that starts it, every
\* later one in the step that receives the response to the command before it.
C26_CommandsInOrderOneAtATime ==
  [][sent' # sent =>
       LET e == sent'[Len(sent')]
           earlier == {i \in 1..Len(sent) : sent[i].cycle = e.cycle}
       IN /\ Len(sent') = Len(sent) + 1
          /\ \A i \in earlier :
               Priority(StageOf(sent[i].command)) < Priority(StageOf(e.command))
          /\ IF earlier = {}
             THEN e.cycle = Len(cycles) + 1 /\ lastOp'.op = "pushChanges"
             ELSE /\ lastOp'.op = "pushResponse"
                  /\ \E i \in earlier :
                       /\ \A j \in earlier : j <= i
                       /\ cycles[e.cycle].pc = StageOf(sent[i].command)]_vars

\* a cycle has sent the power command and, after its response, the brightness command
C26_Witness ==
  \E c \in 1..Len(cycles) :
    /\ SentBy(c, "On", sent) # {}
    /\ SentBy(c, "Bri", sent) # {}
    /\ \A i \in SentBy(c, "On", sent), j \in SentBy(c, "Bri", sent) : i < j
    /\ cycles[c].pc = "Bri"

\* ------------------------------------------------ specification with fairness
\* the debounce timer fires and every request settles (a response, or an error after
\* the client's timeout); the 15 s interval of pushChanges goes on emitting until one
\* emission is let through, so it fires if it can fire again and again; at most
\* MaxInFlightFair refreshStatus calls are suspended at a time
MaxInFlightFair == 1

RequestSettles ==
  \E c \in 1..Len(cycles) :
    \/ PushResponse(c, TRUE, 0, 0)
    \/ \E st \in StatusPairs : PushResponse(c, FALSE, st[1], st[2])

RefreshSettles ==
  \E i \in Suspended :
    \/ RefreshAttemptFails(i)
    \/ \E st \in StatusPairs :
         \E body \in (IF IsSuccess(st[1], st[2]) THEN Bodies ELSE {NoBody}) :
           RefreshReply(i, st[1], st[2], body)

Fairness ==
  /\ WF_vars(DebounceFire)
  /\ WF_vars(RequestSettles)
  /\ WF_vars(RefreshSettles)
  /\ SF_vars(VerifyTick)

InitFair == Init /\ deviceType = "CeilingLight"

NextFair == (LightNext \/ RefreshNext) /\ Len(refreshes') <= MaxInFlightFair

SpecFair == InitFair /\ [][NextFair]_vars /\ Fairness

\* ------------------------------------------------ properties: verification refresh
\* C27: the end of every dispatch cycle, whatever its requests returned, schedules
\* one verification refresh; the pending ones change in no other way than by one of
\* them firing, which happens with the flag clear, calls refreshStatus and removes it;
\* and every pending one fires.  (The 15 seconds are not modelled: the timer is
\* started at the end of pushChanges, after the cycle's requests.)
C27_OneVerificationPerCycle ==
  /\ [][/\ \A c \in 1..Len(cycles') : Ends(c) => verifyTimers' = verifyTimers + 1
        /\ lastOp'.op = "verifyRefresh" =>
             /\ verifyTimers > 0
             /\ verifyTimers' = verifyTimers - 1
             /\ ~ceilingLightUpdateInProgress
             /\ refreshes' = StartRefresh(refreshes, deviceType, device)
        /\ verifyTimers' # verifyTimers =>
             \/ \E c \in 1..Len(cycles') : Ends(c)
             \/ lastOp'.op = "verifyRefresh"]_vars
  /\ \A n \in 1..MaxEvents : (verifyTimers = n) ~> (verifyTimers < n)

\* a cycle whose request threw has ended and its verification refresh has fired
C27_Witness ==
  /\ lastOp.op = "verifyRefresh"
  /\ verifyTimers = 0
  /\ Len(cycles) = 1
  /\ cycles[1].pc = "done"
  /\ \E k \in DOMAIN hap : hap[k] = ErrorValue

\* C28: the step in which a cycle ends, after a success, a refused command or a
\* thrown request, leaves ceilingLightUpdateInProgress false, and whenever the flag
\* is set it is cleared later.
C28_FlagIsReset ==
  /\ [][\A c \in 1..Len(cycles') : Ends(c) => ~ceilingLightUpdateInProgress']_vars
  /\ ceilingLightUpdateInProgress ~> ~ceilingLightUpdateInProgress

\* the only request of a cycle threw, the cycle ended and the flag is clear
C28_Witness ==
  /\ lastOp = Op("pushResponse", "throw")
  /\ Len(cycles) = 1
  /\ cycles[1].pc = "done"
  /\ ~ceilingLightUpdateInProgress
  /\ ~debounceTimer

\* ------------------------------------------------ properties: local radio
\* C29, as the specification states it: on a device whose connection type includes
\* local radio and which is not cloud-disabled, every refreshStatus call (periodic or
\* verification) starts the local-radio refresh, i.e. leaves a call suspended in
\* connectBLE.  The light's local-radio branch is commented out, so a light configured
\* for BLE goes to offlineOff instead and this does not hold of the code.
C29_RadioConfiguredRefreshUsesRadio ==
  [][(/\ lastOp'.op \in {"refreshStatus", "verifyRefresh"}
      /\ BLE(device)
      /\ ~CloudDisabled)
       => /\ lastOp'.result = "BLE"
          /\ refreshes' = Insert(refreshes, [pc |-> "connectBLE", attempt |-> 0])]_vars

\* the service data of an advertisement that matches the detector's address and model
FrameServiceData == [battery |-> 42, status |-> 1]

\* C30, as the specification states it: a scan during which a matching advertisement
\* arrived ends with the battery fields of the cache and of the persisted context taken
\* from that frame; a scan without one changes no cached value.  The advertisement
\* handler only logs the frame and the end of the scan parses a property of the handler
\* function, which is undefined, so the first half does not hold of the code.
C30_MatchingFrameUpdatesCache ==
  [][\A i \in Suspended :
       /\ ScanEnds(i, TRUE)
            => /\ Battery' = BLEparseBattery(FrameServiceData)
               /\ context'.BatteryLevel = Battery'.BatteryLevel
               /\ context'.StatusLowBattery = Battery'.StatusLowBattery
       /\ (ScanEnds(i, FALSE) /\ ~ScanEnds(i, TRUE))
            => UNCHANGED <<Battery, LeakSensor, context>>]_vars

C32_OfflineIssuesNothing ==
  device.offline => refreshes = <<>> /\ sent = <<>>

\* ------------------------------------------------ remote refresh with requests that settle
\* every status request settles (a response, or an error after the client's timeout);
\* both devices, at most MaxInFlightFair refreshStatus calls suspended at a time
NextRetry == Next /\ Len(refreshes') <= MaxInFlightFair

SpecRetry == Init /\ [][NextRetry]_vars /\ WF_vars(RefreshSettles)

\* the steps that call refreshStatus
RefreshStartOps == {"refreshStatus", "verifyRefresh"}

StatusCallsOf(rs) == {i \in 1..Len(rs) : rs[i].pc = "status"}

\* C33: a remote refresh has one status request outstanding at a time, numbered from 1
\* to at most deviceMaxRetries; a failed attempt below the limit is followed by the next
\* attempt of the same call and nothing else; a response ends the call at once; the
\* failure of the last attempt ends the call in the error path, which reports the error
\* to the host; and unless refreshStatus is called again and again, the status
\* requests come to an end.  (The delay between the attempts is not modelled.)
C33_BoundedSequentialAttempts ==
  /\ [](\A i \in StatusCallsOf(refreshes) : refreshes[i].attempt \in 1..deviceMaxRetries)
  /\ [][lastOp'.op = "openAPIRefreshStatus" =>
          \E i \in StatusCallsOf(refreshes) :
            CASE lastOp'.result = "retry" ->
                   /\ refreshes[i].attempt < deviceMaxRetries
                   /\ refreshes' = Insert(Remove(refreshes, i),
                                          [pc |-> "status", attempt |-> refreshes[i].attempt + 1])
                   /\ UNCHANGED <<hap, cacheVars>>
              [] lastOp'.result = "exhausted" ->
                   /\ refreshes[i].attempt = deviceMaxRetries
                   /\ refreshes' = Remove(refreshes, i)
                   /\ \E k \in DOMAIN hap' : hap'[k] = ErrorValue
              [] OTHER ->
                   /\ lastOp'.result \in {"success", "status"}
                   /\ refreshes' = Remove(refreshes, i)]_vars
  /\ \/ []<>(lastOp.op \in RefreshStartOps)
     \/ []<>(StatusCallsOf(refreshes) = {})

\* the last of deviceMaxRetries attempts of a water detector's refresh has failed
C33_Witness ==
  /\ deviceType = "WaterDetector"
  /\ lastOp = Op("openAPIRefreshStatus", "exhausted")
  /\ refreshes = <<>>
  /\ \E k \in DOMAIN hap : hap[k] = ErrorValue

\* ------------------------------------------------ properties: a light that is off
ColourCommands == {"setColor", "setColorTemperature", "setBrightness"}

\* LightBulb.On as it was when the window of cycle c closed (c may be about to start)
OnAtDispatch(c) == IF c > Len(cycles) THEN LightBulb.On ELSE cycles[c].atClose.On

C35_NoRefreshWhileInProgress ==
  [][(deviceType = "CeilingLight" /\ lastOp'.op \in {"refreshStatus", "verifyRefresh"})
       => ~ceilingLightUpdateInProgress]_vars

\* C36, as the specification states it: ceilingLightUpdateInProgress is true exactly
\* when a debounce window is open or a dispatch cycle is running.  The subscriber
\* clears the flag at the end of every cycle without looking at the windows and cycles
\* that began in the meantime, so with setter calls during a running cycle the flag is
\* false while a window is open or another cycle runs, and this does not hold of the
\* code.
C36_FlagTracksWindowAndCycles ==
  deviceType = "CeilingLight" =>
    (ceilingLightUpdateInProgress <=> (debounceTimer \/ Running # {}))

\* ------------------------------------------------ properties: no signal is lost
SetterNames == {"OnSet", "BrightnessSet", "ColorTemperatureSet", "HueSet", "SaturationSet"}

\* C37, as the specification states it: every setter call leaves a dispatch signal
\* pending; the cycle that starts when the window closes finds in LightBulb, for every
\* field set during the window, the value of the last call; and every open window
\* closes.  ColorTemperatureSet can return without recording or signalling, and a
\* webhook event or a refresh that arrives during the window overwrites the value the
\* cycle will read, so this does not hold of the code.
C37_EverySetterCallIsDispatched ==
  /\ [][/\ lastOp'.op \in SetterNames => debounceTimer'
        /\ lastOp'.op = "pushChanges" =>
             \A i \in LastCalls(window) :
               LightBulb[FieldOf(window[i].setter)] = window[i].value]_vars
  /\ debounceTimer ~> ~debounceTimer

\* ------------------------------------------------ properties: ranges of cached values
\* C38, as the specification states it: the cached ColorTemperature of a constructed
\* light is always a mired value in 140..500.  The webhook handler stores the event's
\* colorTemperature (kelvin, or undefined) as it comes, so this does not hold of the
\* code.
C38_CachedColorTemperatureInRange ==
  LightReady => LightBulb.ColorTemperature \in 140..500

\* the low-battery indicators that a level can be given by one of the two parsers
\* (below 10 for the remote API, below 15 for local radio; not low without a number)
Recomputed(level) ==
  IF level \in {Undefined, NaN} THEN {0}
  ELSE {LowBatteryOpenAPI(level), LowBatteryBLE(level)}

\* C39, as the specification states it: every step that changes the water detector's
\* cached BatteryLevel leaves StatusLowBattery as computed from the new level.  The
\* webhook handler assigns the event's battery to BatteryLevel and nothing to
\* StatusLowBattery, so this does not hold of the code.
C39_LowBatteryFollowsLevel ==
  [][(deviceType = "WaterDetector" /\ Battery'.BatteryLevel # Battery.BatteryLevel)
       => Battery'.StatusLowBattery \in Recomputed(Battery'.BatteryLevel)]_vars

====
